---- MODULE Spec2Model ----
(***************************************************************************)
(* Model of the accounting-demo ledger: src/src/account.rs (Account) and   *)
(* src/src/account_manager.rs (AccountManager, process_transaction).       *)
(*                                                                         *)
(* Amounts are f64 in the source.  They are modelled as exact integers     *)
(* (multiples of one smallest unit), negative values included since the    *)
(* record parser accepts any f64; rounding and NaN are outside the model.  *)
(***************************************************************************)
EXTENDS Integers, FiniteSets, Sequences, TLC

\* ---------------------------------------------------------------- bounds
\* run lengths, in records read: MaxOps for runs over every record, MaxDeepOps
\* for runs over well-formed records, MaxPairOps for the ledgers from which
\* pairs of records are tried in both orders
MaxOps == 4
MaxDeepOps == 5
MaxPairOps == 3
MaxAmount == 2
\* records read after the seed prefix in the runs that start from a ledger
\* with two disputed deposits
MaxSeededOps == 3
\* the reference scenario is run with its amounts written in units of
\* 1/(2u) for u in 1..MaxUnit (u = 1: units of 0.5)
MaxUnit == 10

ClientId == {1, 2}
TransactionId == {1, 2}
\* the amounts a record can carry: any parsed f64, so negative ones too
PositiveAmounts == 1..MaxAmount
NegativeAmounts == {-1}
Amounts == PositiveAmounts \cup NegativeAmounts
\* Option<f64>: Some(a) is <<a>>, None is << >>
Some(a) == <<a>>
NoAmount == << >>

\* accounts, tx_cache: the two maps of AccountManager.  The others record the
\* run: last (the record just dispatched and what dispatch returned), ops (how
\* many records were read), charged_back and open_dispute (per transaction
\* identifier, what the run did to it so far).
VARIABLES accounts, tx_cache, last, ops, charged_back, open_dispute
vars == <<accounts, tx_cache, last, ops, charged_back, open_dispute>>

\* ---------------------------------------------------------- types.rs
\* Result::Ok(()); the errors below are records with the same kind field
Ok == [kind |-> "Ok"]

\* a Transaction record; amount is NoAmount for Option::None
Transaction(action, client_id, id, amount) ==
  [action |-> action, client_id |-> client_id, id |-> id, amount |-> amount]

\* what `last` holds: the record dispatched, the result of process_transaction
\* and the result of the Account call made inside it
Dispatched(tx, res, acct) == [tx |-> tx, res |-> res, acct |-> acct]

\* ------------------------------------------------------- account.rs
AccountErrorLocked == [kind |-> "Locked"]
InsufficientFunds(requested, available) ==
  [kind |-> "InsufficientFunds", requested |-> requested, available |-> available]

AccountNew == [available |-> 0, disputed |-> 0, locked |-> FALSE]

total(acc) == acc.available + acc.disputed

check_sufficient_funds(acc, requested) ==
  IF requested > acc.available
    THEN InsufficientFunds(requested, acc.available)
    ELSE Ok

check_locked(acc) == IF acc.locked THEN AccountErrorLocked ELSE Ok

\* variant: a deposit re-activates the account
AccountDeposit_Unlocks(acc, amount) ==
  [acc EXCEPT !.available = @ + amount, !.locked = FALSE]

AccountDeposit(acc, amount) ==
  [acc EXCEPT !.available = @ + amount]

\* withdraw / dispute return [res, acc]: the result and the account afterwards
\* variant: the debit is made before the funds check
AccountWithdraw_DebitFirst(acc, amount) ==
  IF check_locked(acc) # Ok THEN [res |-> check_locked(acc), acc |-> acc]
  ELSE IF check_sufficient_funds(acc, amount) # Ok
    THEN [res |-> check_sufficient_funds(acc, amount),
          acc |-> [acc EXCEPT !.available = @ - amount]]
  ELSE [res |-> Ok, acc |-> [acc EXCEPT !.available = @ - amount]]

\* variant: the funds check is made before the lock check
AccountWithdraw_FundsFirst(acc, amount) ==
  IF check_sufficient_funds(acc, amount) # Ok
    THEN [res |-> check_sufficient_funds(acc, amount), acc |-> acc]
  ELSE IF check_locked(acc) # Ok THEN [res |-> check_locked(acc), acc |-> acc]
  ELSE [res |-> Ok, acc |-> [acc EXCEPT !.available = @ - amount]]

AccountWithdraw(acc, amount) ==
  IF check_locked(acc) # Ok THEN [res |-> check_locked(acc), acc |-> acc]
  ELSE IF check_sufficient_funds(acc, amount) # Ok
    THEN [res |-> check_sufficient_funds(acc, amount), acc |-> acc]
  ELSE [res |-> Ok, acc |-> [acc EXCEPT !.available = @ - amount]]

\* variant: a locked account still moves funds into held
AccountDispute_IgnoresLock(acc, amount) ==
  IF check_sufficient_funds(acc, amount) # Ok
    THEN [res |-> check_sufficient_funds(acc, amount), acc |-> acc]
  ELSE [res |-> Ok,
        acc |-> [acc EXCEPT !.available = @ - amount, !.disputed = @ + amount]]

AccountDispute(acc, amount) ==
  IF check_locked(acc) # Ok THEN [res |-> check_locked(acc), acc |-> acc]
  ELSE IF check_sufficient_funds(acc, amount) # Ok
    THEN [res |-> check_sufficient_funds(acc, amount), acc |-> acc]
  ELSE [res |-> Ok,
        acc |-> [acc EXCEPT !.available = @ - amount, !.disputed = @ + amount]]

\* variant: the held bucket is not released
AccountResolve_KeepsHeld(acc, amount) ==
  [acc EXCEPT !.available = @ + amount]

AccountResolve(acc, amount) ==
  [acc EXCEPT !.available = @ + amount, !.disputed = @ - amount]

AccountChargeback(acc, amount) ==
  [acc EXCEPT !.disputed = @ - amount, !.locked = TRUE]

\* ----------------------------------------------- account_manager.rs
Unauthorized(client_id, owner_id) ==
  [kind |-> "Unauthorized", client_id |-> client_id, owner_id |-> owner_id]
Undisputed(id) == [kind |-> "Undisputed", id |-> id]
AlreadyDisputed(id) == [kind |-> "AlreadyDisputed", id |-> id]
TransactionNotFound(id) == [kind |-> "TransactionNotFound", id |-> id]

TxCacheEntryNew(client_id, amount) ==
  [client_id |-> client_id, amount |-> amount, disputed |-> FALSE]

\* variant: the owner is not compared
check_authorization_Skipped(tx, client_id) == Ok

check_authorization(tx, client_id) ==
  IF tx.client_id # client_id THEN Unauthorized(client_id, tx.client_id) ELSE Ok

\* variant: the dispute state is not looked at
check_disputed_Skipped(tx, id) == Ok

check_disputed(tx, id) == IF ~tx.disputed THEN Undisputed(id) ELSE Ok

\* variant: a second dispute is let through
check_undisputed_Skipped(tx, id) == Ok

check_undisputed(tx, id) == IF tx.disputed THEN AlreadyDisputed(id) ELSE Ok

\* HashMap::insert / remove and entry(k).or_default() on maps modelled as
\* functions whose domain is the set of keys present
MapInsert(m, k, v) == [x \in (DOMAIN m) \cup {k} |-> IF x = k THEN v ELSE m[x]]
MapRemove(m, k) == [x \in (DOMAIN m) \ {k} |-> m[x]]
EntryOrDefault(accts, client_id) ==
  IF client_id \in DOMAIN accts THEN accts[client_id] ELSE AccountNew

\* A ledger value: [accounts, tx_cache]; every manager operation returns
\* [accounts, tx_cache, res, acct] where acct is the result of the inner
\* Account call (Ok when no Account call that can fail was made)
Outcome(accts, cache, res, acct) ==
  [accounts |-> accts, tx_cache |-> cache, res |-> res, acct |-> acct]

ManagerNew == [accounts |-> << >>, tx_cache |-> << >>]

\* variant: an identifier already in the cache keeps its entry
ManagerDeposit_KeepsExisting(accts, cache, tx_id, client_id, amount) ==
  Outcome(MapInsert(accts, client_id,
                    AccountDeposit(EntryOrDefault(accts, client_id), amount)),
          IF tx_id \in DOMAIN cache THEN cache
          ELSE MapInsert(cache, tx_id, TxCacheEntryNew(client_id, amount)),
          Ok, Ok)

ManagerDeposit(accts, cache, tx_id, client_id, amount) ==
  Outcome(MapInsert(accts, client_id,
                    AccountDeposit(EntryOrDefault(accts, client_id), amount)),
          MapInsert(cache, tx_id, TxCacheEntryNew(client_id, amount)),
          Ok, Ok)

ManagerWithdraw(accts, cache, client_id, amount) ==
  LET r == AccountWithdraw(EntryOrDefault(accts, client_id), amount)
  IN  Outcome(MapInsert(accts, client_id, r.acc), cache, r.res, r.res)

ManagerDispute(accts, cache, tx_id, client_id) ==
  IF tx_id \notin DOMAIN cache
    THEN Outcome(accts, cache, TransactionNotFound(tx_id), Ok)
  ELSE IF check_authorization(cache[tx_id], client_id) # Ok
    THEN Outcome(accts, cache, check_authorization(cache[tx_id], client_id), Ok)
  ELSE IF check_undisputed(cache[tx_id], tx_id) # Ok
    THEN Outcome(accts, cache, check_undisputed(cache[tx_id], tx_id), Ok)
  ELSE LET r == AccountDispute(EntryOrDefault(accts, client_id),
                               cache[tx_id].amount)
       IN  Outcome(MapInsert(accts, client_id, r.acc),
                   [cache EXCEPT ![tx_id].disputed = (r.res = Ok)],
                   Ok, r.res)

\* variant: the dispute state is looked at before the owner
ManagerResolve_StateFirst(accts, cache, tx_id, client_id) ==
  IF tx_id \notin DOMAIN cache
    THEN Outcome(accts, cache, TransactionNotFound(tx_id), Ok)
  ELSE IF check_disputed(cache[tx_id], tx_id) # Ok
    THEN Outcome(accts, cache, check_disputed(cache[tx_id], tx_id), Ok)
  ELSE IF check_authorization(cache[tx_id], client_id) # Ok
    THEN Outcome(accts, cache, check_authorization(cache[tx_id], client_id), Ok)
  ELSE Outcome(MapInsert(accts, client_id,
                 AccountResolve(EntryOrDefault(accts, client_id),
                                cache[tx_id].amount)),
               [cache EXCEPT ![tx_id].disputed = FALSE],
               Ok, Ok)

\* variant: a locked account is refused its resolve
ManagerResolve_RefusesLocked(accts, cache, tx_id, client_id) ==
  IF tx_id \in DOMAIN cache /\ check_locked(EntryOrDefault(accts, client_id)) # Ok
    THEN Outcome(accts, cache, AccountErrorLocked, AccountErrorLocked)
  ELSE IF tx_id \notin DOMAIN cache
    THEN Outcome(accts, cache, TransactionNotFound(tx_id), Ok)
  ELSE IF check_authorization(cache[tx_id], client_id) # Ok
    THEN Outcome(accts, cache, check_authorization(cache[tx_id], client_id), Ok)
  ELSE IF check_disputed(cache[tx_id], tx_id) # Ok
    THEN Outcome(accts, cache, check_disputed(cache[tx_id], tx_id), Ok)
  ELSE Outcome(MapInsert(accts, client_id,
                 AccountResolve(EntryOrDefault(accts, client_id),
                                cache[tx_id].amount)),
               [cache EXCEPT ![tx_id].disputed = FALSE],
               Ok, Ok)

ManagerResolve(accts, cache, tx_id, client_id) ==
  IF tx_id \notin DOMAIN cache
    THEN Outcome(accts, cache, TransactionNotFound(tx_id), Ok)
  ELSE IF check_authorization(cache[tx_id], client_id) # Ok
    THEN Outcome(accts, cache, check_authorization(cache[tx_id], client_id), Ok)
  ELSE IF check_disputed(cache[tx_id], tx_id) # Ok
    THEN Outcome(accts, cache, check_disputed(cache[tx_id], tx_id), Ok)
  ELSE Outcome(MapInsert(accts, client_id,
                 AccountResolve(EntryOrDefault(accts, client_id),
                                cache[tx_id].amount)),
               [cache EXCEPT ![tx_id].disputed = FALSE],
               Ok, Ok)

\* variant: a locked account is refused its chargeback
ManagerChargeback_RefusesLocked(accts, cache, tx_id, client_id) ==
  IF tx_id \in DOMAIN cache /\ check_locked(EntryOrDefault(accts, client_id)) # Ok
    THEN Outcome(accts, cache, AccountErrorLocked, AccountErrorLocked)
  ELSE IF tx_id \notin DOMAIN cache
    THEN Outcome(accts, cache, TransactionNotFound(tx_id), Ok)
  ELSE IF check_authorization(cache[tx_id], client_id) # Ok
    THEN Outcome(accts, cache, check_authorization(cache[tx_id], client_id), Ok)
  ELSE IF check_disputed(cache[tx_id], tx_id) # Ok
    THEN Outcome(accts, cache, check_disputed(cache[tx_id], tx_id), Ok)
  ELSE Outcome(MapInsert(accts, client_id,
                 AccountChargeback(EntryOrDefault(accts, client_id),
                                   cache[tx_id].amount)),
               MapRemove(cache, tx_id),
               Ok, Ok)

\* variant: the entry is kept in the cache
ManagerChargeback_KeepsEntry(accts, cache, tx_id, client_id) ==
  IF tx_id \notin DOMAIN cache
    THEN Outcome(accts, cache, TransactionNotFound(tx_id), Ok)
  ELSE IF check_authorization(cache[tx_id], client_id) # Ok
    THEN Outcome(accts, cache, check_authorization(cache[tx_id], client_id), Ok)
  ELSE IF check_disputed(cache[tx_id], tx_id) # Ok
    THEN Outcome(accts, cache, check_disputed(cache[tx_id], tx_id), Ok)
  ELSE Outcome(MapInsert(accts, client_id,
                 AccountChargeback(EntryOrDefault(accts, client_id),
                                   cache[tx_id].amount)),
               cache,
               Ok, Ok)

ManagerChargeback(accts, cache, tx_id, client_id) ==
  IF tx_id \notin DOMAIN cache
    THEN Outcome(accts, cache, TransactionNotFound(tx_id), Ok)
  ELSE IF check_authorization(cache[tx_id], client_id) # Ok
    THEN Outcome(accts, cache, check_authorization(cache[tx_id], client_id), Ok)
  ELSE IF check_disputed(cache[tx_id], tx_id) # Ok
    THEN Outcome(accts, cache, check_disputed(cache[tx_id], tx_id), Ok)
  ELSE Outcome(MapInsert(accts, client_id,
                 AccountChargeback(EntryOrDefault(accts, client_id),
                                   cache[tx_id].amount)),
               MapRemove(cache, tx_id),
               Ok, Ok)

\* variant: a missing amount is read as zero
process_transaction_MissingIsZero(accts, cache, tx) ==
  CASE tx.action = "Deposit" ->
         ManagerDeposit(accts, cache, tx.id, tx.client_id,
                        IF tx.amount # NoAmount THEN tx.amount[1] ELSE 0)
    [] tx.action = "Withdrawal" ->
         ManagerWithdraw(accts, cache, tx.client_id,
                         IF tx.amount # NoAmount THEN tx.amount[1] ELSE 0)
    [] tx.action = "Dispute" -> ManagerDispute(accts, cache, tx.id, tx.client_id)
    [] tx.action = "Resolve" -> ManagerResolve(accts, cache, tx.id, tx.client_id)
    [] tx.action = "Chargeback" ->
         ManagerChargeback(accts, cache, tx.id, tx.client_id)

process_transaction(accts, cache, tx) ==
  CASE tx.action = "Deposit" ->
         IF tx.amount # NoAmount
           THEN ManagerDeposit(accts, cache, tx.id, tx.client_id, tx.amount[1])
           ELSE Outcome(accts, cache, Ok, Ok)
    [] tx.action = "Withdrawal" ->
         IF tx.amount # NoAmount
           THEN ManagerWithdraw(accts, cache, tx.client_id, tx.amount[1])
           ELSE Outcome(accts, cache, Ok, Ok)
    [] tx.action = "Dispute" -> ManagerDispute(accts, cache, tx.id, tx.client_id)
    [] tx.action = "Resolve" -> ManagerResolve(accts, cache, tx.id, tx.client_id)
    [] tx.action = "Chargeback" ->
         ManagerChargeback(accts, cache, tx.id, tx.client_id)

\* types.rs: the actions that reference an earlier transaction
DisputeActions == {"Dispute", "Resolve", "Chargeback"}

\* every record the dispatcher can be handed
AllRecords ==
  [action : {"Deposit", "Withdrawal"}, client_id : ClientId, id : TransactionId,
   amount : {Some(a) : a \in Amounts} \cup {NoAmount}]
  \cup [action : DisputeActions, client_id : ClientId, id : TransactionId,
        amount : {NoAmount}]

\* two records dispatched one after the other on a ledger value
ProcessTwo(accts, cache, t1, t2) ==
  LET o1 == process_transaction(accts, cache, t1)
      o2 == process_transaction(o1.accounts, o1.tx_cache, t2)
  IN  [accounts |-> o2.accounts, tx_cache |-> o2.tx_cache,
       res1 |-> o1.res, res2 |-> o2.res]

\* ------------------------------------------------------ state machine
IsDeposit(tx) == tx.action = "Deposit" /\ tx.amount # NoAmount
IsWithdrawal(tx) == tx.action = "Withdrawal" /\ tx.amount # NoAmount
\* a dispute that moved funds into held: dispatch and Account::dispute both Ok
MovedToHeld(tx, res, acct) == tx.action = "Dispute" /\ res = Ok /\ acct = Ok

\* what the run did to identifier id, after record tx with outcome o:
\* "charged" once a chargeback on it succeeded, "reused" once a later deposit
\* carried it again
ChargedAfter(cb, tx, o) ==
  [id \in TransactionId |->
     IF tx.action = "Chargeback" /\ o.res = Ok /\ tx.id = id THEN "charged"
     ELSE IF IsDeposit(tx) /\ tx.id = id /\ cb[id] # "none" THEN "reused"
     ELSE cb[id]]

\* "open" from a dispute that moved funds until a resolve succeeds ("none");
\* "reused" once a deposit carried the identifier while it was open
OpenAfter(od, tx, o) ==
  [id \in TransactionId |->
     IF MovedToHeld(tx, o.res, o.acct) /\ tx.id = id THEN "open"
     ELSE IF tx.action = "Resolve" /\ o.res = Ok /\ tx.id = id THEN "none"
     ELSE IF IsDeposit(tx) /\ tx.id = id /\ od[id] = "open" THEN "reused"
     ELSE od[id]]

\* main.rs: one iteration of the driver loop; the per-record error is dropped
\* by the driver, `last` remembers the record and what dispatch returned, and
\* `ops` counts the records read so far
Step(tx) ==
  LET o == process_transaction(accounts, tx_cache, tx)
  IN  /\ ops' = ops + 1
      /\ accounts' = o.accounts
      /\ tx_cache' = o.tx_cache
      /\ last' = Dispatched(tx, o.res, o.acct)
      /\ charged_back' = ChargedAfter(charged_back, tx, o)
      /\ open_dispute' = OpenAfter(open_dispute, tx, o)

Init ==
  /\ accounts = ManagerNew.accounts
  /\ tx_cache = ManagerNew.tx_cache
  /\ last = Dispatched(Transaction("None", 0, 0, NoAmount), Ok, Ok)
  /\ ops = 0
  /\ charged_back = [id \in TransactionId |-> "none"]
  /\ open_dispute = [id \in TransactionId |-> "none"]

Deposit ==
  \E c \in ClientId, id \in TransactionId, a \in PositiveAmounts :
    Step(Transaction("Deposit", c, id, Some(a)))

Withdrawal ==
  \E c \in ClientId, id \in TransactionId, a \in PositiveAmounts :
    Step(Transaction("Withdrawal", c, id, Some(a)))

Dispute ==
  \E c \in ClientId, id \in TransactionId :
    Step(Transaction("Dispute", c, id, NoAmount))

Resolve ==
  \E c \in ClientId, id \in TransactionId :
    Step(Transaction("Resolve", c, id, NoAmount))

Chargeback ==
  \E c \in ClientId, id \in TransactionId :
    Step(Transaction("Chargeback", c, id, NoAmount))

DepositNoAmount ==
  \E c \in ClientId, id \in TransactionId :
    Step(Transaction("Deposit", c, id, NoAmount))

WithdrawalNoAmount ==
  \E c \in ClientId, id \in TransactionId :
    Step(Transaction("Withdrawal", c, id, NoAmount))

\* the same two records carrying an amount below zero, which the parser and
\* the dispatcher accept like any other
DepositNegative ==
  \E c \in ClientId, id \in TransactionId, a \in NegativeAmounts :
    Step(Transaction("Deposit", c, id, Some(a)))

WithdrawalNegative ==
  \E c \in ClientId, id \in TransactionId, a \in NegativeAmounts :
    Step(Transaction("Withdrawal", c, id, Some(a)))

\* any record, runs cut at MaxOps records
Next ==
  /\ ops < MaxOps
  /\ \/ Deposit
     \/ Withdrawal
     \/ Dispute
     \/ Resolve
     \/ Chargeback
     \/ DepositNoAmount
     \/ WithdrawalNoAmount
     \/ DepositNegative
     \/ WithdrawalNegative

Spec == Init /\ [][Next]_vars

\* longer runs over the well-formed records only (an amount above zero on
\* every deposit and withdrawal)
NextDeep ==
  /\ ops < MaxDeepOps
  /\ \/ Deposit
     \/ Withdrawal
     \/ Dispute
     \/ Resolve
     \/ Chargeback

SpecDeep == Init /\ [][NextDeep]_vars

\* the ledgers any MaxPairOps records can leave, the run itself not recorded
DispatchAny ==
  \E tx \in AllRecords :
    LET o == process_transaction(accounts, tx_cache, tx)
    IN  /\ ops' = ops + 1
        /\ accounts' = o.accounts
        /\ tx_cache' = o.tx_cache
        /\ UNCHANGED <<last, charged_back, open_dispute>>

NextShort == ops < MaxPairOps /\ DispatchAny

SpecShort == Init /\ [][NextShort]_vars

\* tests/test_scenarios.rs, get_scenario1_transactions: the eleven records,
\* their amounts written in units of 1/(2u) (1.0 is 2u, 1.5 is 3u, ...)
Units == 1..MaxUnit
Scenario1(u) ==
  << Transaction("Deposit", 1, 1, Some(2 * u)),
     Transaction("Deposit", 2, 2, Some(4 * u)),
     Transaction("Deposit", 1, 3, Some(4 * u)),
     Transaction("Withdrawal", 1, 4, Some(3 * u)),
     Transaction("Withdrawal", 2, 5, Some(6 * u)),
     Transaction("Dispute", 1, 1, NoAmount),
     Transaction("Dispute", 2, 2, NoAmount),
     Transaction("Dispute", 2, 2, NoAmount),
     Transaction("Dispute", 2, 1, NoAmount),
     Transaction("Resolve", 1, 1, NoAmount),
     Transaction("Chargeback", 2, 2, NoAmount) >>
ScenarioLen == 11

\* the ledger after the first n records of the scenario, from a new manager
RECURSIVE RunPrefix(_, _)
RunPrefix(u, n) ==
  IF n = 0 THEN ManagerNew
  ELSE LET p == RunPrefix(u, n - 1)
           o == process_transaction(p.accounts, p.tx_cache, Scenario1(u)[n])
       IN  [accounts |-> o.accounts, tx_cache |-> o.tx_cache]

\* the run so far is the first `ops` records of the scenario in unit u
OnScenario(u) ==
  /\ accounts = RunPrefix(u, ops).accounts
  /\ tx_cache = RunPrefix(u, ops).tx_cache

\* test_scenario1: one iteration of its loop, the result dropped
ScenarioStep ==
  \E u \in Units : OnScenario(u) /\ Step(Scenario1(u)[ops + 1])

NextScenario == ops < ScenarioLen /\ ScenarioStep

SpecScenario == Init /\ [][NextScenario]_vars

\* the run of a sequence of records from a new manager: the two maps and
\* what Step records about the run
RECURSIVE RunAll(_)
RunAll(txs) ==
  IF txs = << >>
    THEN [accounts |-> ManagerNew.accounts, tx_cache |-> ManagerNew.tx_cache,
          last |-> Dispatched(Transaction("None", 0, 0, NoAmount), Ok, Ok),
          charged_back |-> [id \in TransactionId |-> "none"],
          open_dispute |-> [id \in TransactionId |-> "none"]]
  ELSE LET p == RunAll(SubSeq(txs, 1, Len(txs) - 1))
           tx == txs[Len(txs)]
           o == process_transaction(p.accounts, p.tx_cache, tx)
       IN  [accounts |-> o.accounts, tx_cache |-> o.tx_cache,
            last |-> Dispatched(tx, o.res, o.acct),
            charged_back |-> ChargedAfter(p.charged_back, tx, o),
            open_dispute |-> OpenAfter(p.open_dispute, tx, o)]

\* a prefix that leaves client c with two deposits, both under dispute
TwoDisputed(c, a1, a2) ==
  << Transaction("Deposit", c, 1, Some(a1)),
     Transaction("Dispute", c, 1, NoAmount),
     Transaction("Deposit", c, 2, Some(a2)),
     Transaction("Dispute", c, 2, NoAmount) >>
SeedLen == 4

\* the driver has read one such prefix
InitSeeded ==
  \E c \in ClientId, a1 \in PositiveAmounts, a2 \in PositiveAmounts :
    LET r == RunAll(TwoDisputed(c, a1, a2))
    IN  /\ accounts = r.accounts
        /\ tx_cache = r.tx_cache
        /\ last = r.last
        /\ ops = SeedLen
        /\ charged_back = r.charged_back
        /\ open_dispute = r.open_dispute

\* and goes on with MaxSeededOps well-formed records
NextSeeded ==
  /\ ops < SeedLen + MaxSeededOps
  /\ \/ Deposit
     \/ Withdrawal
     \/ Dispute
     \/ Resolve
     \/ Chargeback

SpecSeeded == InitSeeded /\ [][NextSeeded]_vars

\* ------------------------------------------------------------ properties
Tot(accts, c) == total(EntryOrDefault(accts, c))

TypeOK ==
  /\ DOMAIN accounts \subseteq ClientId
  /\ DOMAIN tx_cache \subseteq TransactionId
  /\ ops \in 0..(MaxOps + MaxDeepOps + MaxPairOps + ScenarioLen + SeedLen + MaxSeededOps)
\* C1 Conservation: in one step a client's total (available + disputed) moves
\* by +amount on that client's successful deposit, by -amount on its
\* successful withdrawal, by -(the entry's amount) on its successful
\* chargeback, and by nothing in every other case; in particular every
\* dispute and every resolve leaves every total as it was.
ExpectedDelta(c) ==
  LET tx == last'.tx
  IN  IF last'.res # Ok \/ tx.client_id # c THEN 0
      ELSE IF IsDeposit(tx) THEN tx.amount[1]
      ELSE IF IsWithdrawal(tx) THEN 0 - tx.amount[1]
      ELSE IF tx.action = "Chargeback" THEN 0 - tx_cache[tx.id].amount
      ELSE 0
C1_Conservation ==
  [][\A c \in ClientId :
       /\ Tot(accounts', c) - Tot(accounts, c) = ExpectedDelta(c)
       /\ last'.tx.action \in {"Dispute", "Resolve"}
            => Tot(accounts', c) = Tot(accounts, c)]_vars
\* a chargeback has just taken held funds out of an account that keeps others
C1_Witness ==
  /\ last.tx.action = "Chargeback" /\ last.res = Ok
  /\ Tot(accounts, last.tx.client_id) > 0

\* C2 Non-negativity: every account's available balance is >= 0 in every
\* reachable state.
C2_NonNegativeAvailable ==
  \A c \in DOMAIN accounts : accounts[c].available >= 0

\* C3 Lock monotonicity: an account that is locked is locked after every
\* step, and an account becomes locked only by its own successful chargeback.
C3_LockMonotone ==
  [][\A c \in ClientId :
       /\ EntryOrDefault(accounts, c).locked => EntryOrDefault(accounts', c).locked
       /\ (~EntryOrDefault(accounts, c).locked /\ EntryOrDefault(accounts', c).locked)
            => (last'.tx.action = "Chargeback" /\ last'.res = Ok
                /\ last'.tx.client_id = c)]_vars
\* a deposit has just been applied to an account that is locked
C3_Witness ==
  /\ IsDeposit(last.tx)
  /\ last.tx.client_id \in DOMAIN accounts
  /\ accounts[last.tx.client_id].locked

\* C4 Authorization: a dispute, resolve or chargeback on an identifier whose
\* entry is owned by another client returns Unauthorized{client_id, owner_id}
\* and changes neither map, whether or not the entry is disputed.
ForeignRequest(tx) ==
  /\ tx.action \in DisputeActions
  /\ tx.id \in DOMAIN tx_cache
  /\ tx_cache[tx.id].client_id # tx.client_id
C4_Authorization ==
  [][ForeignRequest(last'.tx) =>
       /\ last'.res = Unauthorized(last'.tx.client_id, tx_cache[last'.tx.id].client_id)
       /\ accounts' = accounts
       /\ tx_cache' = tx_cache]_vars
\* a non-owner's request on a disputed entry has just been refused
C4_Witness ==
  /\ last.res.kind = "Unauthorized"
  /\ last.tx.id \in DOMAIN tx_cache
  /\ tx_cache[last.tx.id].disputed
  /\ tx_cache[last.tx.id].client_id # last.tx.client_id
\* C5 Idempotent removal (as stated): once a chargeback on an identifier has
\* succeeded, every later dispute, resolve or chargeback on it returns
\* TransactionNotFound, whatever happened in between.
C5_RemovedForever ==
  [][(last'.tx.action \in DisputeActions /\ charged_back[last'.tx.id] # "none")
       => last'.res = TransactionNotFound(last'.tx.id)]_vars
\* C5 (amended): once a chargeback on an identifier has succeeded, every later
\* dispute, resolve or chargeback on it returns TransactionNotFound as long as
\* no deposit has carried that identifier again.
C5_RemovedUntilReused ==
  [][(last'.tx.action \in DisputeActions /\ charged_back[last'.tx.id] = "charged")
       => last'.res = TransactionNotFound(last'.tx.id)]_vars
\* a request on a charged-back identifier has just been refused
C5_Witness ==
  /\ last.tx.action \in DisputeActions
  /\ last.res.kind = "TransactionNotFound"
  /\ charged_back[last.tx.id] = "charged"

ErrorKinds ==
  {"InsufficientFunds", "Locked", "TransactionNotFound", "Unauthorized",
   "Undisputed", "AlreadyDisputed"}
C7_NoPartialMutation ==
  [][(last'.res # Ok /\ last'.tx.action \in DisputeActions \cup {"Withdrawal"})
       => /\ last'.res.kind \in ErrorKinds
          /\ tx_cache' = tx_cache
          /\ \A c \in ClientId :
               EntryOrDefault(accounts', c) = EntryOrDefault(accounts, c)
          /\ \A c \in DOMAIN accounts :
               c \in DOMAIN accounts' /\ accounts'[c] = accounts[c]]_vars
\* a withdrawal has just been refused on an account holding disputed funds
C7_Witness ==
  /\ last.tx.action = "Withdrawal"
  /\ last.res.kind = "InsufficientFunds"
  /\ accounts[last.tx.client_id].disputed > 0
  /\ accounts[last.tx.client_id].available > 0

\* C8: when the history checks pass and Account::dispute rejects the dispute
\* (Locked or InsufficientFunds), the ledger's dispute returns that error and
\* the entry stays undisputed.
C8_DisputeErrorSurfaced ==
  (last.tx.action = "Dispute" /\ last.acct # Ok)
    => /\ last.res = last.acct
       /\ ~tx_cache[last.tx.id].disputed

\* C9 Cross-client independence (as stated): from every reachable ledger, any
\* two records of different clients leave the same accounts and the same
\* history in either order.  (The statement is symmetric in the two records,
\* so each unordered pair is taken once.)
C9_AnyTwoCommute ==
  \A t1, t2 \in AllRecords :
    t1.client_id < t2.client_id =>
      LET x == ProcessTwo(accounts, tx_cache, t1, t2)
          y == ProcessTwo(accounts, tx_cache, t2, t1)
      IN  x.accounts = y.accounts /\ x.tx_cache = y.tx_cache
\* C9 (amended): two records of different clients leave the same accounts and
\* history in either order unless one is a deposit and the other a deposit,
\* dispute, resolve or chargeback carrying the same identifier; when the two
\* identifiers differ each record also returns the same result in either order.
SameIdOverwrite(t1, t2) ==
  /\ t1.id = t2.id
  /\ IsDeposit(t1) \/ IsDeposit(t2)
  /\ t1.action # "Withdrawal" /\ t2.action # "Withdrawal"
C9_CommuteUnlessOverwrite ==
  \A t1, t2 \in AllRecords :
    t1.client_id < t2.client_id =>
      LET x == ProcessTwo(accounts, tx_cache, t1, t2)
          y == ProcessTwo(accounts, tx_cache, t2, t1)
      IN  /\ ~SameIdOverwrite(t1, t2)
               => x.accounts = y.accounts /\ x.tx_cache = y.tx_cache
          /\ t1.id # t2.id => x.res1 = y.res2 /\ x.res2 = y.res1
\* a ledger with a disputed entry from which the owner's resolve and the
\* other client's withdrawal both succeed and both change their accounts
C9_Witness ==
  \E t1, t2 \in AllRecords :
    /\ t1.client_id # t2.client_id
    /\ t1.action = "Resolve" /\ IsWithdrawal(t2) /\ t2.amount[1] > 0
    /\ t1.id \in DOMAIN tx_cache /\ tx_cache[t1.id].disputed
    /\ tx_cache[t1.id].amount > 0
    /\ LET x == ProcessTwo(accounts, tx_cache, t1, t2)
       IN  /\ x.res1 = Ok /\ x.res2 = Ok
           /\ EntryOrDefault(x.accounts, t1.client_id)
                # EntryOrDefault(accounts, t1.client_id)
           /\ EntryOrDefault(x.accounts, t2.client_id)
                # EntryOrDefault(accounts, t2.client_id)

\* C10 History entry lifecycle (as stated): an identifier enters the cache
\* only by a deposit; its entry changes owner or amount only by a deposit; its
\* flag goes false->true only by a dispute and true->false only by a resolve;
\* it leaves the cache only by a successful chargeback while disputed; no
\* withdrawal changes the cache.
EntryCreatedOnlyByDeposit(id) ==
  ((id \notin DOMAIN tx_cache /\ id \in DOMAIN tx_cache')
   \/ (id \in DOMAIN tx_cache /\ id \in DOMAIN tx_cache'
       /\ (tx_cache'[id].client_id # tx_cache[id].client_id
           \/ tx_cache'[id].amount # tx_cache[id].amount)))
    => (IsDeposit(last'.tx) /\ last'.tx.id = id)
EntryRemovedOnlyByChargeback(id) ==
  (id \in DOMAIN tx_cache /\ id \notin DOMAIN tx_cache')
    => /\ last'.tx.action = "Chargeback" /\ last'.tx.id = id /\ last'.res = Ok
       /\ tx_cache[id].disputed
       /\ last'.tx.client_id = tx_cache[id].client_id
FlagSetOnlyByDispute(id) ==
  (id \in DOMAIN tx_cache /\ id \in DOMAIN tx_cache'
   /\ ~tx_cache[id].disputed /\ tx_cache'[id].disputed)
    => (last'.tx.action = "Dispute" /\ last'.tx.id = id)
FlagCleared(id) ==
  /\ id \in DOMAIN tx_cache /\ id \in DOMAIN tx_cache'
  /\ tx_cache[id].disputed /\ ~tx_cache'[id].disputed
C10_Lifecycle ==
  [][/\ \A id \in TransactionId :
          /\ EntryCreatedOnlyByDeposit(id)
          /\ EntryRemovedOnlyByChargeback(id)
          /\ FlagSetOnlyByDispute(id)
          /\ FlagCleared(id) => (last'.tx.action = "Resolve" /\ last'.tx.id = id)
     /\ last'.tx.action = "Withdrawal" => tx_cache' = tx_cache]_vars
\* C10 (amended): as stated, except that the flag goes true->false by a
\* resolve or by a deposit that carries the identifier and overwrites the
\* entry.
C10_LifecycleWithOverwrite ==
  [][/\ \A id \in TransactionId :
          /\ EntryCreatedOnlyByDeposit(id)
          /\ EntryRemovedOnlyByChargeback(id)
          /\ FlagSetOnlyByDispute(id)
          /\ FlagCleared(id)
               => \/ last'.tx.action = "Resolve" /\ last'.tx.id = id
                  \/ IsDeposit(last'.tx) /\ last'.tx.id = id
     /\ last'.tx.action = "Withdrawal" => tx_cache' = tx_cache]_vars
\* a chargeback has just removed its disputed entry while an undisputed entry
\* of the same client stays in the cache
C10_Witness ==
  /\ last.tx.action = "Chargeback" /\ last.res = Ok
  /\ last.tx.id \notin DOMAIN tx_cache
  /\ open_dispute[last.tx.id] = "open"
  /\ \E id \in DOMAIN tx_cache :
       tx_cache[id].client_id = last.tx.client_id /\ ~tx_cache[id].disputed

\* C11 Reference scenario: the eleven records of scenario 1 dispatched in
\* order on an empty ledger, errors ignored, leave exactly two accounts:
\* client 1 with available 1.5 (3u), held 0, total 1.5, unlocked; client 2
\* with available 0, held 0, total 0, locked.
C11_ReferenceScenario ==
  \A u \in Units :
    (ops = ScenarioLen /\ OnScenario(u))
      => /\ DOMAIN accounts = {1, 2}
         /\ accounts[1] = [available |-> 3 * u, disputed |-> 0, locked |-> FALSE]
         /\ total(accounts[1]) = 3 * u
         /\ accounts[2] = [available |-> 0, disputed |-> 0, locked |-> TRUE]
         /\ total(accounts[2]) = 0
\* the scenario in units of 0.5 has been run to its last record, the
\* chargeback by client 2
C11_Witness ==
  /\ ops = ScenarioLen
  /\ OnScenario(1)
  /\ last.tx = Scenario1(1)[ScenarioLen] /\ last.res = Ok

\* C12 Deposit never fails: from every ledger, the client's account locked or
\* absent included, a deposit returns Ok, adds the amount to that client's
\* available, leaves its held and locked as they were, and leaves under the
\* identifier the entry {client, amount, disputed = false} whatever entry the
\* identifier had before.
C12_DepositNeverFails ==
  [][IsDeposit(last'.tx) =>
       LET tx == last'.tx
           before == EntryOrDefault(accounts, tx.client_id)
       IN  /\ last'.res = Ok
           /\ tx.client_id \in DOMAIN accounts'
           /\ accounts'[tx.client_id].available = before.available + tx.amount[1]
           /\ accounts'[tx.client_id].disputed = before.disputed
           /\ accounts'[tx.client_id].locked = before.locked
           /\ tx.id \in DOMAIN tx_cache'
           /\ tx_cache'[tx.id] = TxCacheEntryNew(tx.client_id, tx.amount[1])]_vars
\* a deposit has just overwritten the disputed entry of another client, whose
\* funds are still held
C12_Witness ==
  /\ IsDeposit(last.tx)
  /\ open_dispute[last.tx.id] = "reused"
  /\ \E c \in DOMAIN accounts :
       c # last.tx.client_id /\ accounts[c].disputed > 0

\* C13 Withdrawal: on a locked account a withdrawal returns Locked, also when
\* the amount exceeds available; on an unlocked account with amount >
\* available it returns InsufficientFunds{requested: amount, available}, held
\* funds not counted; otherwise it takes exactly the amount off available and
\* leaves held and locked as they were.  The cache is unchanged in each case.
C13_Withdrawal ==
  [][IsWithdrawal(last'.tx) =>
       LET tx == last'.tx
           a == tx.amount[1]
           before == EntryOrDefault(accounts, tx.client_id)
           after == EntryOrDefault(accounts', tx.client_id)
       IN  /\ tx_cache' = tx_cache
           /\ IF before.locked
                THEN last'.res = AccountErrorLocked /\ after = before
              ELSE IF a > before.available
                THEN /\ last'.res = InsufficientFunds(a, before.available)
                     /\ after = before
              ELSE /\ last'.res = Ok
                   /\ after.available = before.available - a
                   /\ after.disputed = before.disputed
                   /\ after.locked = before.locked]_vars
\* a withdrawal of more than the available funds has just been refused with
\* Locked on a locked account
C13_Witness ==
  /\ IsWithdrawal(last.tx)
  /\ last.res = AccountErrorLocked
  /\ last.tx.amount[1] > accounts[last.tx.client_id].available

\* C14 Dispute effect: after a dispute by the owner on an undisputed entry of
\* amount a, the entry is disputed if and only if the account was unlocked
\* and a <= available before; then available went down by a and held up by
\* a; otherwise available, held and the entry are as before, and a resolve or
\* a chargeback by the owner on the ledger so left returns Undisputed.
OwnedUndisputed(tx) ==
  /\ tx.id \in DOMAIN tx_cache
  /\ tx_cache[tx.id].client_id = tx.client_id
  /\ ~tx_cache[tx.id].disputed
C14_DisputeEffect ==
  [][(last'.tx.action = "Dispute" /\ OwnedUndisputed(last'.tx)) =>
       LET tx == last'.tx
           a == tx_cache[tx.id].amount
           before == EntryOrDefault(accounts, tx.client_id)
           after == EntryOrDefault(accounts', tx.client_id)
           accepted == ~before.locked /\ a <= before.available
       IN  /\ tx.id \in DOMAIN tx_cache'
           /\ tx_cache'[tx.id].disputed <=> accepted
           /\ accepted => /\ after.available = before.available - a
                          /\ after.disputed = before.disputed + a
                          /\ after.locked = before.locked
           /\ ~accepted =>
                /\ after = before
                /\ tx_cache'[tx.id] = tx_cache[tx.id]
                /\ ManagerResolve(accounts', tx_cache', tx.id, tx.client_id).res
                     = Undisputed(tx.id)
                /\ ManagerChargeback(accounts', tx_cache', tx.id, tx.client_id).res
                     = Undisputed(tx.id)]_vars
\* the owner's dispute of an undisputed entry has just been turned down
\* because the account is locked, though the funds are there
C14_Witness ==
  /\ last.tx.action = "Dispute" /\ last.res = Ok
  /\ last.acct = AccountErrorLocked
  /\ ~tx_cache[last.tx.id].disputed
  /\ tx_cache[last.tx.id].amount <= accounts[last.tx.client_id].available

\* C15 Resolve: a resolve returns Ok exactly when the cache has an entry for
\* the identifier, owned by the requesting client and disputed; it then adds
\* the entry's amount to available, takes it off held, clears the flag, keeps
\* the entry and leaves locked as it was, on a locked account too.  On an
\* undisputed entry the owner gets Undisputed{id}.
OwnedDisputed(tx) ==
  /\ tx.id \in DOMAIN tx_cache
  /\ tx_cache[tx.id].client_id = tx.client_id
  /\ tx_cache[tx.id].disputed
C15_Resolve ==
  [][last'.tx.action = "Resolve" =>
       LET tx == last'.tx
           before == EntryOrDefault(accounts, tx.client_id)
           after == EntryOrDefault(accounts', tx.client_id)
       IN  /\ (last'.res = Ok) <=> OwnedDisputed(tx)
           /\ OwnedDisputed(tx) =>
                /\ after.available = before.available + tx_cache[tx.id].amount
                /\ after.disputed = before.disputed - tx_cache[tx.id].amount
                /\ after.locked = before.locked
                /\ tx.id \in DOMAIN tx_cache'
                /\ tx_cache'[tx.id] = [tx_cache[tx.id] EXCEPT !.disputed = FALSE]
           /\ OwnedUndisputed(tx) => last'.res = Undisputed(tx.id)]_vars
\* a resolve has just released held funds on a locked account
C15_Witness ==
  /\ last.tx.action = "Resolve" /\ last.res = Ok
  /\ accounts[last.tx.client_id].locked
  /\ accounts[last.tx.client_id].available > 0

\* C16 Chargeback: a chargeback returns Ok exactly when the cache has an
\* entry for the identifier, owned by the requesting client and disputed; it
\* then takes the entry's amount off held, leaves available as it was, sets
\* locked and removes the entry, on an account that is already locked too.
C16_Chargeback ==
  [][last'.tx.action = "Chargeback" =>
       LET tx == last'.tx
           before == EntryOrDefault(accounts, tx.client_id)
           after == EntryOrDefault(accounts', tx.client_id)
       IN  /\ (last'.res = Ok) <=> OwnedDisputed(tx)
           /\ OwnedDisputed(tx) =>
                /\ after.disputed = before.disputed - tx_cache[tx.id].amount
                /\ after.available = before.available
                /\ after.locked
                /\ tx_cache' = MapRemove(tx_cache, tx.id)]_vars
\* the only client of the ledger has just had its second chargeback, on an
\* account the first one had locked
C16_Witness ==
  /\ last.tx.action = "Chargeback" /\ last.res = Ok
  /\ DOMAIN accounts = {last.tx.client_id}
  /\ \A id \in TransactionId : charged_back[id] = "charged"
  /\ accounts[last.tx.client_id].locked

\* C17 A deposit or withdrawal record without an amount returns Ok and leaves
\* the whole ledger as it was: no account created or changed, no cache entry
\* created, overwritten or removed.
C17_MissingAmountSkipped ==
  [][(last'.tx.action \in {"Deposit", "Withdrawal"} /\ last'.tx.amount = NoAmount)
       => /\ last'.res = Ok
          /\ accounts' = accounts
          /\ tx_cache' = tx_cache]_vars
\* a deposit without amount, by a client that has no account and under an
\* identifier whose entry is disputed, has just been skipped
C17_Witness ==
  /\ last.tx.action = "Deposit" /\ last.tx.amount = NoAmount
  /\ last.tx.client_id \notin DOMAIN accounts
  /\ last.tx.id \in DOMAIN tx_cache
  /\ tx_cache[last.tx.id].disputed

\* C18 Error precedence: for dispute, resolve and chargeback the entry is
\* looked up first, then its owner, then its dispute state.  An unknown
\* identifier gives TransactionNotFound whatever the client; a non-owner gets
\* Unauthorized whatever the flag; AlreadyDisputed (dispute only) and
\* Undisputed (resolve, chargeback only) go to the owner only.
C18_ErrorPrecedence ==
  [][last'.tx.action \in DisputeActions =>
       LET tx == last'.tx
           res == last'.res
       IN  /\ tx.id \notin DOMAIN tx_cache => res = TransactionNotFound(tx.id)
           /\ ForeignRequest(tx)
                => res = Unauthorized(tx.client_id, tx_cache[tx.id].client_id)
           /\ res.kind = "AlreadyDisputed"
                => tx.action = "Dispute" /\ OwnedDisputed(tx)
           /\ res.kind = "Undisputed"
                => tx.action \in {"Resolve", "Chargeback"} /\ OwnedUndisputed(tx)]_vars
\* a non-owner's resolve or chargeback on an undisputed entry has just been
\* refused with Unauthorized
C18_Witness ==
  /\ last.tx.action \in {"Resolve", "Chargeback"}
  /\ last.tx.id \in DOMAIN tx_cache
  /\ tx_cache[last.tx.id].client_id # last.tx.client_id
  /\ ~tx_cache[last.tx.id].disputed
  /\ last.res.kind = "Unauthorized"

\* C19 Dispute/resolve round trip: from every reachable ledger, a dispute
\* that moves funds into held followed at once by the same client's resolve
\* of the same identifier gives back the ledger as it was: the client's
\* available, held, total and locked and the entry's owner, amount and flag.
DisputeThenResolve(c, id) ==
  LET d == process_transaction(accounts, tx_cache,
                               Transaction("Dispute", c, id, NoAmount))
      r == process_transaction(d.accounts, d.tx_cache,
                               Transaction("Resolve", c, id, NoAmount))
  IN  [accounts |-> r.accounts, tx_cache |-> r.tx_cache, res |-> r.res,
       moved |-> d.res = Ok /\ d.acct = Ok,
       held |-> EntryOrDefault(d.accounts, c).disputed]
C19_RoundTrip ==
  \A c \in ClientId, id \in TransactionId :
    LET x == DisputeThenResolve(c, id)
    IN  x.moved =>
          /\ x.res = Ok
          /\ c \in DOMAIN accounts /\ id \in DOMAIN tx_cache
          /\ x.accounts[c] = accounts[c]
          /\ total(x.accounts[c]) = total(accounts[c])
          /\ x.tx_cache[id] = tx_cache[id]
          /\ x.accounts = accounts /\ x.tx_cache = tx_cache
\* a ledger where a client already has held funds and another of its entries
\* can be disputed, the dispute adding to held
C19_Witness ==
  \E c \in DOMAIN accounts, id \in DOMAIN tx_cache :
    /\ accounts[c].disputed > 0
    /\ DisputeThenResolve(c, id).moved
    /\ DisputeThenResolve(c, id).held > accounts[c].disputed

\* C20 Held matches the history (as stated): in every reachable state each
\* client's held balance is the sum of the amounts of the cache entries it
\* owns whose flag is set, 0 when it has none.
RECURSIVE SumAmounts(_, _)
SumAmounts(cache, ids) ==
  IF ids = {} THEN 0
  ELSE LET id == CHOOSE x \in ids : TRUE
       IN  cache[id].amount + SumAmounts(cache, ids \ {id})
HeldInHistory(cache, c) ==
  SumAmounts(cache, {id \in DOMAIN cache :
                       cache[id].client_id = c /\ cache[id].disputed})
Held(accts, c) == EntryOrDefault(accts, c).disputed
C20_HeldMatchesHistory ==
  \A c \in ClientId : Held(accounts, c) = HeldInHistory(tx_cache, c)
\* C20 (amended): each client's held balance is the sum of the amounts of its
\* disputed entries plus the amounts of those of its disputed entries that a
\* deposit has overwritten: the difference is 0 on a new ledger and a step
\* changes it only when a deposit carries the identifier of a disputed entry
\* of that client, by that entry's amount.
Overwritten(c) ==
  LET tx == last'.tx
  IN  IF /\ IsDeposit(tx) /\ tx.id \in DOMAIN tx_cache
         /\ tx_cache[tx.id].client_id = c /\ tx_cache[tx.id].disputed
        THEN tx_cache[tx.id].amount
        ELSE 0
C20_HeldMatchesUnlessOverwritten ==
  /\ \A c \in ClientId : Held(accounts, c) = HeldInHistory(tx_cache, c)
  /\ [][\A c \in ClientId :
          (Held(accounts', c) - HeldInHistory(tx_cache', c))
            = (Held(accounts, c) - HeldInHistory(tx_cache, c)) + Overwritten(c)]_vars
\* a deposit has just overwritten a disputed entry of a client that has
\* another disputed entry left: its held funds exceed what the cache shows
C20_Witness ==
  /\ IsDeposit(last.tx)
  /\ open_dispute[last.tx.id] = "reused"
  /\ \E c \in ClientId :
       /\ HeldInHistory(tx_cache, c) > 0
       /\ Held(accounts, c) > HeldInHistory(tx_cache, c)

\* C21 An operation that returns an error adds no client to the accounts
\* snapshot: after a withdrawal, dispute, resolve or chargeback that failed,
\* accounts() returns the same set of client identifiers as before.
C21_ErrorAddsNoClient ==
  [][(last'.res # Ok /\ last'.tx.action \in DisputeActions \cup {"Withdrawal"})
       => DOMAIN accounts' = DOMAIN accounts]_vars

\* C22 When every deposit and withdrawal carries an amount above zero, every
\* client's held balance and total balance are >= 0 in every reachable state,
\* also after deposits that carry an identifier again and after a resolve or
\* a chargeback on a locked account.
C22_HeldAndTotalNonNegative ==
  \A c \in DOMAIN accounts :
    accounts[c].disputed >= 0 /\ total(accounts[c]) >= 0
\* a resolve has just released funds on a locked account, in a run where a
\* deposit carried a charged-back identifier again
C22_Witness ==
  /\ last.tx.action = "Resolve" /\ last.res = Ok
  /\ accounts[last.tx.client_id].locked
  /\ \E id \in TransactionId : charged_back[id] = "reused"
====
